---- MODULE Spec2Model ----
(***************************************************************************)
(* Model of the secrets manager and the LLM dispatch of                    *)
(* src/src-tauri/src/secrets.rs, driven by the tauri commands of           *)
(* src/src-tauri/src/lib.rs.                                               *)
(*                                                                         *)
(* Every caller (an invocation of a tauri command) is a process.  A        *)
(* process executes the statements of the async function it called, one    *)
(* statement per step; `lock().await` is a step that is enabled only when  *)
(* the tokio mutex is free, and the MutexGuard is dropped by the step that *)
(* returns from the function.                                              *)
(***************************************************************************)
EXTENDS Integers, Sequences, FiniteSets, TLC

(***************************************************************************)
(* Bounds of the model.                                                    *)
(***************************************************************************)
MaxClock == 1

MaxOps == 3

MaxModelTokens == 2

\* `as u32` keeps the low 32 bits.  TLC's integers are 32 bits wide themselves,
\* so the model scales the word: U32Bits bits instead of 32.
U32Bits == 4

\* The concurrent callers: two invocations of tauri commands in flight.
Procs == {"caller1", "caller2"}

Times == 0..MaxClock

(***************************************************************************)
(* Data.  Strings that the code inspects character by character (model     *)
(* identifiers) are sequences of one-character strings; strings that the   *)
(* code only stores, compares or formats are TLA+ strings.                 *)
(***************************************************************************)
Names == {"anthropic_api_key", "openai_api_key"}

Values == {"sk-1", "sk-2"}

None == << >>

Some(t) == <<t>>

SecretData == [value : Values, created_at : Times, last_accessed : {None} \cup {Some(t) : t \in Times}]

NoOwner == "unlocked"

Pending == <<"Pending", "">>

Ok(v) == <<"Ok", v>>

Err(msg) == <<"Err", msg>>

IsOk(r) == r[1] = "Ok"

IsErr(r) == r[1] = "Err"

NotFoundMsg(n) == "Secret '" \o n \o "' not found"

OkUnit == "()"

(***************************************************************************)
(* Model identifiers.  The words the classifier looks for, some words in   *)
(* other letter cases, and identifiers made of up to MaxModelTokens words. *)
(***************************************************************************)
claude == <<"c", "l", "a", "u", "d", "e">>

anthropic == <<"a", "n", "t", "h", "r", "o", "p", "i", "c">>

gpt == <<"g", "p", "t">>

openai == <<"o", "p", "e", "n", "a", "i">>

Claude == <<"C", "l", "a", "u", "d", "e">>

GPT == <<"G", "P", "T">>

OpenAI == <<"O", "p", "e", "n", "A", "I">>

llama == <<"l", "l", "a", "m", "a">>

dash4 == <<"-", "4">>

Tokens == {claude, anthropic, gpt, openai, Claude, GPT, OpenAI, llama, dash4}

RECURSIVE ModelIds(_)

ModelIds(k) == IF k = 0 THEN {<< >>} ELSE ModelIds(k - 1) \cup {m \o t : m \in ModelIds(k - 1), t \in Tokens}

WideModels == ModelIds(MaxModelTokens)

MainModels == {claude \o dash4, gpt \o dash4, llama \o dash4}

(***************************************************************************)
(* HTTP responses.  A JSON body is a record of the paths the adapters      *)
(* read; a usage object is a function from the fields it has to numbers.   *)
(***************************************************************************)
UsageFields == {"input_tokens", "output_tokens", "prompt_tokens", "completion_tokens", "total_tokens"}

TokenCounts == {3}

UsageObjects == UNION {[fs -> TokenCounts] : fs \in SUBSET UsageFields}

Texts == {"hi"}

JsonBodies == [content : {None} \cup {Some(t) : t \in Texts}, choices : {None} \cup {Some(t) : t \in Texts}, usage : {None} \cup {Some(u) : u \in UsageObjects}]

NoJson == [content |-> None, choices |-> None, usage |-> None]

Statuses == {200, 500}

Responses == [transport_ok : {TRUE}, status : Statuses, is_json : {TRUE}, text : {"body"}, json : JsonBodies] \cup [transport_ok : BOOLEAN, status : Statuses, is_json : {FALSE}, text : {"body"}, json : {NoJson}]

FullUsage == [f \in UsageFields |-> 3]

\* The responses of Spec, one or two for every path through the adapters: JSON
\* bodies under status 200, plain bodies under either status, and a failed
\* transport (where the status means nothing).
MainResponses == {r \in Responses : (r.is_json => (r.status = 200 /\ r.json.content = r.json.choices /\ r.json.usage \in {None, Some(FullUsage)})) /\ (~r.transport_ok => r.status = 500)}

NoRequest == [url |-> "", key |-> ""]

\* The responses of SpecAdapter: statuses on both sides of the 2xx range,
\* every combination of usage fields, and token counts below and above the
\* largest u32 (U32Bits is defined with the adapters, below).
WideStatuses == {200, 204, 299, 300, 404, 500}

WideTokenCounts == {3, 2 ^ U32Bits + 3}

WideUsageObjects == UNION {[fs -> WideTokenCounts] : fs \in SUBSET UsageFields}

WideJsonBodies == [content : {None} \cup {Some(t) : t \in Texts}, choices : {None} \cup {Some(t) : t \in Texts}, usage : {None} \cup {Some(u) : u \in WideUsageObjects}]

WideResponses == [transport_ok : {TRUE}, status : WideStatuses, is_json : {TRUE}, text : {"body"}, json : WideJsonBodies] \cup [transport_ok : BOOLEAN, status : WideStatuses, is_json : {FALSE}, text : {"body"}, json : {NoJson}]

AnthropicUrl == "https://api.anthropic.com/v1/messages"

OpenAIUrl == "https://api.openai.com/v1/chat/completions"

VARIABLES secrets, lock, now, pc, op, name, value, model, api_key, net, response, result, hist, calls

vars == <<secrets, lock, now, pc, op, name, value, model, api_key, net, response, result, hist, calls>>

(***************************************************************************)
(* HashMap<String, SecretData>: a function whose domain is the set of keys *)
(***************************************************************************)
EmptyMap == [n \in {} |-> [value |-> "", created_at |-> 0, last_accessed |-> None]]

InsertFresh(m, n, d) == [k \in {n} |-> d]

InsertIfAbsent(m, n, d) == [k \in (DOMAIN m) \cup {n} |-> IF k \in DOMAIN m THEN m[k] ELSE d]

Insert(m, n, d) == [k \in (DOMAIN m) \cup {n} |-> IF k = n THEN d ELSE m[k]]

RemoveNothing(m, n) == m

RemoveKey(m, n) == [k \in (DOMAIN m) \ {n} |-> m[k]]

ContainsKey(m, n) == n \in DOMAIN m

Keys(m) == DOMAIN m

TouchNothing(m, n, t) == m

TouchCreated(m, n, t) == [m EXCEPT ![n] = [@ EXCEPT !.last_accessed = Some(t), !.created_at = t]]

Touch(m, n, t) == [m EXCEPT ![n] = [@ EXCEPT !.last_accessed = Some(t)]]

(***************************************************************************)
(* tokio::sync::Mutex                                                      *)
(***************************************************************************)
LockFreeAlways == TRUE

LockFree == lock = NoOwner

Holds(p) == lock = p

Init ==
    /\ secrets = EmptyMap
    /\ lock = NoOwner
    /\ now = 0
    /\ pc = [p \in Procs |-> "idle"]
    /\ op = [p \in Procs |-> "none"]
    /\ name = [p \in Procs |-> ""]
    /\ value = [p \in Procs |-> ""]
    /\ model = [p \in Procs |-> << >>]
    /\ api_key = [p \in Procs |-> ""]
    /\ net = [p \in Procs |-> NoRequest]
    /\ response = [p \in Procs |-> None]
    /\ result = [p \in Procs |-> Pending]
    /\ hist = [p \in Procs |-> << >>]
    /\ calls = [p \in Procs |-> << >>]

(***************************************************************************)
(* The system clock read by SystemTime::now(), in seconds since the epoch. *)
(***************************************************************************)
Tick ==
    /\ now < MaxClock
    /\ now' = now + 1
    /\ UNCHANGED <<secrets, lock, pc, op, name, value, result, model, api_key, net, hist, response, calls>>

(***************************************************************************)
(* The tauri commands of lib.rs: a caller invokes one command.             *)
(***************************************************************************)
Invoke(p, command, entry, n, v, m) ==
    /\ pc[p] = "idle"
    /\ op' = [op EXCEPT ![p] = command]
    /\ pc' = [pc EXCEPT ![p] = entry]
    /\ name' = [name EXCEPT ![p] = n]
    /\ value' = [value EXCEPT ![p] = v]
    /\ model' = [model EXCEPT ![p] = m]
    /\ UNCHANGED <<secrets, lock, now, result, api_key, net, response, calls>>

CallStore(p) == \E n \in Names, v \in Values : Invoke(p, "store_secret", "store_lock", n, v, << >>) /\ UNCHANGED hist

CallGet(p) == \E n \in Names : Invoke(p, "get_secret", "get_lock", n, "", << >>) /\ UNCHANGED hist

CallHas(p) == \E n \in Names : Invoke(p, "has_secret", "has_lock", n, "", << >>) /\ UNCHANGED hist

CallList(p) == Invoke(p, "list_secrets", "list_lock", "", "", << >>) /\ UNCHANGED hist

CallRemove(p) == \E n \in Names : Invoke(p, "remove_secret", "remove_lock", n, "", << >>) /\ UNCHANGED hist

CallLlm(p) == \E m \in MainModels : Invoke(p, "call_llm", "llm_classify", "", "", m) /\ UNCHANGED hist

(***************************************************************************)
(* self.secrets.lock().await : the first statement of every method.        *)
(***************************************************************************)
AfterLock(l) ==
    CASE l = "store_lock" -> "store_insert"
      [] l = "get_lock" -> "get_lookup"
      [] l = "has_lock" -> "has_check"
      [] l = "list_lock" -> "list_keys"
      [] l = "remove_lock" -> "remove_do"

LockPcs == {"store_lock", "get_lock", "has_lock", "list_lock", "remove_lock"}

Acquire(p) ==
    /\ pc[p] \in LockPcs
    /\ LockFree
    /\ lock' = p
    /\ pc' = [pc EXCEPT ![p] = AfterLock(pc[p])]
    /\ UNCHANGED <<secrets, now, op, name, value, result, model, api_key, net, hist, response, calls>>

(***************************************************************************)
(* SecretsManager::store_secret                                            *)
(***************************************************************************)
NewSecretDataAccessed(v, t) == [value |-> v, created_at |-> t, last_accessed |-> Some(t)]

NewSecretData(v, t) == [value |-> v, created_at |-> t, last_accessed |-> None]

StoreInsert(p) ==
    /\ pc[p] = "store_insert"
    /\ secrets' = Insert(secrets, name[p], NewSecretData(value[p], now))
    /\ result' = [result EXCEPT ![p] = Ok(OkUnit)]
    /\ pc' = [pc EXCEPT ![p] = "store_ret"]
    /\ UNCHANGED <<lock, now, op, name, value, model, api_key, net, hist, response, calls>>

(***************************************************************************)
(* SecretsManager::get_secret                                              *)
(***************************************************************************)
GetLookup(p) ==
    /\ pc[p] = "get_lookup"
    /\ IF ContainsKey(secrets, name[p])
          THEN /\ pc' = [pc EXCEPT ![p] = "get_touch"]
               /\ UNCHANGED result
          ELSE /\ pc' = [pc EXCEPT ![p] = "get_ret"]
               /\ result' = [result EXCEPT ![p] = Err(NotFoundMsg(name[p]))]
    /\ calls' = [calls EXCEPT ![p] = Append(@, <<"get_secret", name[p]>>)]
    /\ UNCHANGED <<secrets, lock, now, op, name, value, model, api_key, net, hist, response>>

\* secret_data is the &mut SecretData handed out by get_mut; it is alive only
\* while the guard is held.  Were the entry gone (which the guard excludes),
\* the write and the clone would act on freed memory: any value may be read.
GetTouch(p) ==
    /\ pc[p] = "get_touch"
    /\ IF ContainsKey(secrets, name[p])
          THEN /\ secrets' = Touch(secrets, name[p], now)
               /\ result' = [result EXCEPT ![p] = Ok(secrets[name[p]].value)]
          ELSE /\ secrets' = secrets
               /\ \E v \in Values : result' = [result EXCEPT ![p] = Ok(v)]
    /\ pc' = [pc EXCEPT ![p] = "get_ret"]
    /\ UNCHANGED <<lock, now, op, name, value, model, api_key, net, hist, response, calls>>

(***************************************************************************)
(* SecretsManager::has_secret, list_secrets, remove_secret                 *)
(***************************************************************************)
HasCheckTouching(p) ==
    /\ pc[p] = "has_check"
    /\ secrets' = IF ContainsKey(secrets, name[p]) THEN Touch(secrets, name[p], now) ELSE secrets
    /\ result' = [result EXCEPT ![p] = Ok(ContainsKey(secrets, name[p]))]
    /\ pc' = [pc EXCEPT ![p] = "has_ret"]
    /\ UNCHANGED <<lock, now, op, name, value, model, api_key, net, hist, response, calls>>

HasCheck(p) ==
    /\ pc[p] = "has_check"
    /\ result' = [result EXCEPT ![p] = Ok(ContainsKey(secrets, name[p]))]
    /\ pc' = [pc EXCEPT ![p] = "has_ret"]
    /\ UNCHANGED <<secrets, lock, now, op, name, value, model, api_key, net, hist, response, calls>>

ListKeys(p) ==
    /\ pc[p] = "list_keys"
    /\ result' = [result EXCEPT ![p] = Ok(Keys(secrets))]
    /\ pc' = [pc EXCEPT ![p] = "list_ret"]
    /\ UNCHANGED <<secrets, lock, now, op, name, value, model, api_key, net, hist, response, calls>>

RemoveDo(p) ==
    /\ pc[p] = "remove_do"
    /\ IF ContainsKey(secrets, name[p])
          THEN /\ secrets' = RemoveKey(secrets, name[p])
               /\ result' = [result EXCEPT ![p] = Ok(OkUnit)]
          ELSE /\ secrets' = secrets
               /\ result' = [result EXCEPT ![p] = Err(NotFoundMsg(name[p]))]
    /\ pc' = [pc EXCEPT ![p] = "remove_ret"]
    /\ UNCHANGED <<lock, now, op, name, value, model, api_key, net, hist, response, calls>>

(***************************************************************************)
(* Return from a method: the MutexGuard is dropped, and the command hands  *)
(* the result to its caller.                                               *)
(***************************************************************************)
RetPcs == {"store_ret", "get_ret", "has_ret", "list_ret", "remove_ret"}

UnlockNever(p) == lock' = lock

Unlock(p) == lock' = IF Holds(p) THEN NoOwner ELSE lock

\* The locals of a function are gone when it has returned; `model` stays as the
\* argument the caller passed to the command until the command has answered.
DropLocals(p) ==
    /\ name' = [name EXCEPT ![p] = ""]
    /\ value' = [value EXCEPT ![p] = ""]
    /\ api_key' = [api_key EXCEPT ![p] = ""]

Finish(p) ==
    /\ pc' = [pc EXCEPT ![p] = "idle"]
    /\ op' = [op EXCEPT ![p] = "none"]
    /\ result' = [result EXCEPT ![p] = Pending]
    /\ model' = [model EXCEPT ![p] = << >>]
    /\ response' = [response EXCEPT ![p] = None]
    /\ calls' = [calls EXCEPT ![p] = << >>]
    /\ DropLocals(p)

ReturnCmd(p) ==
    /\ pc[p] \in RetPcs
    /\ op[p] # "call_llm"
    /\ Unlock(p)
    /\ Finish(p)
    /\ UNCHANGED <<secrets, now, net, hist>>

(***************************************************************************)
(* call_llm_api: the classification of the model identifier.               *)
(***************************************************************************)
Contains(s, w) == \E i \in 0..(Len(s) - Len(w)) : SubSeq(s, i + 1, i + Len(w)) = w

IsAnthropic(m) == Contains(m, claude) \/ Contains(m, anthropic)

IsOpenAI(m) == Contains(m, gpt) \/ Contains(m, openai)

UnsupportedMsg == "Unsupported model type"

UpperLetters == <<"A", "B", "C", "D", "E", "F", "G", "H", "I", "J", "K", "L", "M", "N", "O", "P", "Q", "R", "S", "T", "U", "V", "W", "X", "Y", "Z">>

LowerLetters == <<"a", "b", "c", "d", "e", "f", "g", "h", "i", "j", "k", "l", "m", "n", "o", "p", "q", "r", "s", "t", "u", "v", "w", "x", "y", "z">>

ToLowerChar(c) == IF \E i \in 1..Len(UpperLetters) : UpperLetters[i] = c THEN LowerLetters[CHOOSE i \in 1..Len(UpperLetters) : UpperLetters[i] = c] ELSE c

ToLower(s) == [i \in 1..Len(s) |-> ToLowerChar(s[i])]

ApiKeyNameIgnoringCase(m) ==
    IF Contains(ToLower(m), claude) \/ Contains(ToLower(m), anthropic) THEN Ok("anthropic_api_key")
    ELSE IF Contains(ToLower(m), gpt) \/ Contains(ToLower(m), openai) THEN Ok("openai_api_key")
    ELSE Err(UnsupportedMsg)

ApiKeyNameOpenAIFirst(m) ==
    IF IsOpenAI(m) THEN Ok("openai_api_key")
    ELSE IF IsAnthropic(m) THEN Ok("anthropic_api_key")
    ELSE Err(UnsupportedMsg)

ApiKeyNameDefaulting(m) ==
    IF IsAnthropic(m) THEN Ok("anthropic_api_key")
    ELSE Ok("openai_api_key")

ApiKeyName(m) ==
    IF IsAnthropic(m) THEN Ok("anthropic_api_key")
    ELSE IF IsOpenAI(m) THEN Ok("openai_api_key")
    ELSE Err(UnsupportedMsg)

Classify(p) ==
    /\ pc[p] = "llm_classify"
    /\ IF IsOk(ApiKeyName(model[p]))
          THEN /\ name' = [name EXCEPT ![p] = ApiKeyName(model[p])[2]]
               /\ pc' = [pc EXCEPT ![p] = "get_lock"]
               /\ UNCHANGED <<result, value, api_key>>
          ELSE /\ result' = [result EXCEPT ![p] = ApiKeyName(model[p])]
               /\ pc' = [pc EXCEPT ![p] = "llm_ret"]
               /\ DropLocals(p)
    /\ UNCHANGED <<secrets, lock, now, op, model, net, hist, response, calls>>

(***************************************************************************)
(* call_llm_api: get_secret(api_key_name).await? returns into the dispatch *)
(***************************************************************************)
ReturnGetHolding(p) ==
    /\ pc[p] = "get_ret"
    /\ op[p] = "call_llm"
    /\ lock' = lock
    /\ IF IsOk(result[p])
          THEN /\ api_key' = [api_key EXCEPT ![p] = result[p][2]]
               /\ result' = [result EXCEPT ![p] = Pending]
               /\ pc' = [pc EXCEPT ![p] = "llm_route"]
               /\ UNCHANGED <<name, value>>
          ELSE /\ pc' = [pc EXCEPT ![p] = "llm_ret"]
               /\ DropLocals(p)
               /\ UNCHANGED result
    /\ UNCHANGED <<secrets, now, op, model, net, hist, response, calls>>

ReturnGetLenient(p) ==
    /\ pc[p] = "get_ret"
    /\ op[p] = "call_llm"
    /\ Unlock(p)
    /\ api_key' = [api_key EXCEPT ![p] = IF IsOk(result[p]) THEN result[p][2] ELSE ""]
    /\ result' = [result EXCEPT ![p] = Pending]
    /\ pc' = [pc EXCEPT ![p] = "llm_route"]
    /\ UNCHANGED <<name, value>>
    /\ UNCHANGED <<secrets, now, op, model, net, hist, response, calls>>

ReturnGet(p) ==
    /\ pc[p] = "get_ret"
    /\ op[p] = "call_llm"
    /\ Unlock(p)
    /\ IF IsOk(result[p])
          THEN /\ api_key' = [api_key EXCEPT ![p] = result[p][2]]
               /\ result' = [result EXCEPT ![p] = Pending]
               /\ pc' = [pc EXCEPT ![p] = "llm_route"]
               /\ UNCHANGED <<name, value>>
          ELSE /\ pc' = [pc EXCEPT ![p] = "llm_ret"]
               /\ DropLocals(p)
               /\ UNCHANGED result
    /\ UNCHANGED <<secrets, now, op, model, net, hist, response, calls>>

(***************************************************************************)
(* call_llm_api: the request is built and handed to the adapter of the     *)
(* provider, which sends it (.send().await).                               *)
(***************************************************************************)
RouteOpenAIFirst(m) ==
    IF IsOpenAI(m) THEN Ok(OpenAIUrl)
    ELSE IF IsAnthropic(m) THEN Ok(AnthropicUrl)
    ELSE Err(UnsupportedMsg)

Route(m) ==
    IF IsAnthropic(m) THEN Ok(AnthropicUrl)
    ELSE IF IsOpenAI(m) THEN Ok(OpenAIUrl)
    ELSE Err(UnsupportedMsg)

\* A dispatch that kept a reference into the map and read the key when sending.
LlmRouteReadingStore(p) ==
    /\ pc[p] = "llm_route"
    /\ net' = [net EXCEPT ![p] = [url |-> Route(model[p])[2], key |-> IF name[p] \in DOMAIN secrets THEN secrets[name[p]].value ELSE ""]]
    /\ calls' = [calls EXCEPT ![p] = Append(@, <<"post", Route(model[p])[2]>>)]
    /\ pc' = [pc EXCEPT ![p] = "llm_await"]
    /\ UNCHANGED <<result, name, value, api_key>>
    /\ UNCHANGED <<secrets, lock, now, op, model, hist, response>>

LlmRoute(p) ==
    /\ pc[p] = "llm_route"
    /\ IF IsOk(Route(model[p]))
          THEN /\ net' = [net EXCEPT ![p] = [url |-> Route(model[p])[2], key |-> api_key[p]]]
               /\ calls' = [calls EXCEPT ![p] = Append(@, <<"post", Route(model[p])[2]>>)]
               /\ pc' = [pc EXCEPT ![p] = "llm_await"]
               /\ UNCHANGED <<result, name, value, api_key>>
          ELSE /\ result' = [result EXCEPT ![p] = Route(model[p])]
               /\ pc' = [pc EXCEPT ![p] = "llm_ret"]
               /\ DropLocals(p)
               /\ UNCHANGED <<net, calls>>
    /\ UNCHANGED <<secrets, lock, now, op, model, hist, response>>

(***************************************************************************)
(* call_anthropic_api and call_openai_api: from the response to the result *)
(***************************************************************************)
IsSuccess(status) == status >= 200 /\ status <= 299

AsU32(n) == n % (2 ^ U32Bits)

UsageField(u, f) == IF f \in DOMAIN u THEN AsU32(u[f]) ELSE 0

AnthropicUsage(j) ==
    IF j.usage = None THEN None
    ELSE Some([input_tokens |-> UsageField(j.usage[1], "input_tokens"), output_tokens |-> UsageField(j.usage[1], "output_tokens"), total_tokens |-> UsageField(j.usage[1], "total_tokens")])

OpenAIUsage(j) ==
    IF j.usage = None THEN None
    ELSE Some([input_tokens |-> UsageField(j.usage[1], "prompt_tokens"), output_tokens |-> UsageField(j.usage[1], "completion_tokens"), total_tokens |-> UsageField(j.usage[1], "total_tokens")])

AdapterResultEmptyContent(r, content, usage) ==
    IF ~r.transport_ok THEN Err("Failed to send request")
    ELSE IF ~IsSuccess(r.status) THEN Err("API error: " \o r.text)
    ELSE IF ~r.is_json THEN Err("Failed to parse response")
    ELSE Ok([content |-> IF content = None THEN "" ELSE content[1], usage |-> usage])

AdapterResult(r, content, usage) ==
    IF ~r.transport_ok THEN Err("Failed to send request")
    ELSE IF ~IsSuccess(r.status) THEN Err("API error: " \o r.text)
    ELSE IF ~r.is_json THEN Err("Failed to parse response")
    ELSE IF content = None THEN Err("No content in response")
    ELSE Ok([content |-> content[1], usage |-> usage])

AnthropicResult(r) == AdapterResult(r, r.json.content, AnthropicUsage(r.json))

OpenAIResult(r) == AdapterResult(r, r.json.choices, OpenAIUsage(r.json))

\* An adapter that sends the request again when the exchange has failed.
ReceiveRetrying(p, r) ==
    /\ pc[p] = "llm_await"
    /\ response' = [response EXCEPT ![p] = Some(r)]
    /\ result' = [result EXCEPT ![p] = IF net[p].url = AnthropicUrl THEN AnthropicResult(r) ELSE OpenAIResult(r)]
    /\ net' = [net EXCEPT ![p] = NoRequest]
    /\ pc' = [pc EXCEPT ![p] = IF IsErr(result'[p]) THEN "llm_route" ELSE "llm_ret"]
    /\ UNCHANGED <<name, value, api_key>>
    /\ UNCHANGED <<secrets, lock, now, op, model, hist, calls>>

\* The exchange ends: the response r has come (or the transport has failed)
\* and the adapter has made its result of it.  The response stays on record
\* with the result until the command has answered.
Receive(p, r) ==
    /\ pc[p] = "llm_await"
    /\ response' = [response EXCEPT ![p] = Some(r)]
    /\ result' = [result EXCEPT ![p] = IF net[p].url = AnthropicUrl THEN AnthropicResult(r) ELSE OpenAIResult(r)]
    /\ net' = [net EXCEPT ![p] = NoRequest]
    /\ pc' = [pc EXCEPT ![p] = "llm_ret"]
    /\ DropLocals(p)
    /\ UNCHANGED <<secrets, lock, now, op, model, hist, calls>>

Respond(p) == pc[p] = "llm_await" /\ \E r \in MainResponses : Receive(p, r)

ReturnLlm(p) ==
    /\ pc[p] = "llm_ret"
    /\ Finish(p)
    /\ UNCHANGED <<secrets, lock, now, net, hist>>

Next ==
    \/ Tick
    \/ \E p \in Procs : CallStore(p)
    \/ \E p \in Procs : CallGet(p)
    \/ \E p \in Procs : CallHas(p)
    \/ \E p \in Procs : CallList(p)
    \/ \E p \in Procs : CallRemove(p)
    \/ \E p \in Procs : CallLlm(p)
    \/ \E p \in Procs : Acquire(p)
    \/ \E p \in Procs : StoreInsert(p)
    \/ \E p \in Procs : GetLookup(p)
    \/ \E p \in Procs : GetTouch(p)
    \/ \E p \in Procs : HasCheck(p)
    \/ \E p \in Procs : ListKeys(p)
    \/ \E p \in Procs : RemoveDo(p)
    \/ \E p \in Procs : ReturnCmd(p)
    \/ \E p \in Procs : Classify(p)
    \/ \E p \in Procs : ReturnGet(p)
    \/ \E p \in Procs : LlmRoute(p)
    \/ \E p \in Procs : Respond(p)
    \/ \E p \in Procs : ReturnLlm(p)

Spec == Init /\ [][Next]_vars

(***************************************************************************)
(* SpecDisjoint: the callers issue MaxOps store, get and remove commands   *)
(* in all, each caller one after the other, on names no other caller uses; *)
(* hist keeps what each caller has issued, in the order it issued it.      *)
(***************************************************************************)
NamesOf(h) == {h[i].name : i \in 1..Len(h)}

RECURSIVE IssuedBy(_)

IssuedBy(S) == IF S = {} THEN 0 ELSE LET p == CHOOSE x \in S : TRUE IN Len(hist[p]) + IssuedBy(S \ {p})

MayIssue(p, n) ==
    /\ IssuedBy(Procs) < MaxOps
    /\ \A q \in Procs \ {p} : n \notin NamesOf(hist[q])

Issued(p, command, n, v) == hist' = [hist EXCEPT ![p] = Append(@, [op |-> command, name |-> n, value |-> v])]

IssueStore(p) == \E n \in Names, v \in Values : MayIssue(p, n) /\ Invoke(p, "store_secret", "store_lock", n, v, << >>) /\ Issued(p, "store_secret", n, v)

IssueGet(p) == \E n \in Names : MayIssue(p, n) /\ Invoke(p, "get_secret", "get_lock", n, "", << >>) /\ Issued(p, "get_secret", n, "")

IssueRemove(p) == \E n \in Names : MayIssue(p, n) /\ Invoke(p, "remove_secret", "remove_lock", n, "", << >>) /\ Issued(p, "remove_secret", n, "")

NextDisjoint ==
    \/ Tick
    \/ \E p \in Procs : IssueStore(p)
    \/ \E p \in Procs : IssueGet(p)
    \/ \E p \in Procs : IssueRemove(p)
    \/ \E p \in Procs : Acquire(p)
    \/ \E p \in Procs : StoreInsert(p)
    \/ \E p \in Procs : GetLookup(p)
    \/ \E p \in Procs : GetTouch(p)
    \/ \E p \in Procs : RemoveDo(p)
    \/ \E p \in Procs : ReturnCmd(p)

SpecDisjoint == Init /\ [][NextDisjoint]_vars

(***************************************************************************)
(* SpecClassify: one caller dispatches model identifiers drawn from        *)
(* WideModels; the steps are the call, the classification and the return   *)
(* of a rejected dispatch.                                                 *)
(***************************************************************************)
CallLlmWide(p) == pc[p] = "idle" /\ \E m \in WideModels : Invoke(p, "call_llm", "llm_classify", "", "", m) /\ UNCHANGED hist

NextClassify ==
    \/ CallLlmWide("caller1")
    \/ Classify("caller1")
    \/ ReturnLlm("caller1")

SpecClassify == Init /\ [][NextClassify]_vars

(***************************************************************************)
(* SpecAdapter: one caller stores keys and dispatches, and the provider    *)
(* answers with any response of WideResponses.  The clock stands still.    *)
(***************************************************************************)
RespondWide(p) == pc[p] = "llm_await" /\ \E r \in WideResponses : Receive(p, r)

NextAdapter ==
    \/ CallStore("caller1")
    \/ CallLlm("caller1")
    \/ Acquire("caller1")
    \/ StoreInsert("caller1")
    \/ ReturnCmd("caller1")
    \/ Classify("caller1")
    \/ GetLookup("caller1")
    \/ GetTouch("caller1")
    \/ ReturnGet("caller1")
    \/ LlmRoute("caller1")
    \/ RespondWide("caller1")
    \/ ReturnLlm("caller1")

SpecAdapter == Init /\ [][NextAdapter]_vars

(***************************************************************************)
(* SpecUpstream: the callers store keys and dispatch, and the provider     *)
(* answers with a plain-text body under any status of WideStatuses.  The   *)
(* clock stands still.                                                     *)
(***************************************************************************)
StatusResponses == {r \in WideResponses : r.transport_ok /\ ~r.is_json}

RespondStatus(p) == pc[p] = "llm_await" /\ \E r \in StatusResponses : Receive(p, r)

NextUpstream ==
    \/ \E p \in Procs : CallStore(p)
    \/ \E p \in Procs : CallLlm(p)
    \/ \E p \in Procs : Acquire(p)
    \/ \E p \in Procs : StoreInsert(p)
    \/ \E p \in Procs : ReturnCmd(p)
    \/ \E p \in Procs : Classify(p)
    \/ \E p \in Procs : GetLookup(p)
    \/ \E p \in Procs : GetTouch(p)
    \/ \E p \in Procs : ReturnGet(p)
    \/ \E p \in Procs : LlmRoute(p)
    \/ \E p \in Procs : RespondStatus(p)
    \/ \E p \in Procs : ReturnLlm(p)

SpecUpstream == Init /\ [][NextUpstream]_vars

(***************************************************************************)
(* SpecRoute: one caller stores keys and dispatches model identifiers      *)
(* drawn from WideModels, all the way to the answer of the provider.  The  *)
(* clock stands still.                                                     *)
(***************************************************************************)
NextRoute ==
    \/ CallStore("caller1")
    \/ CallLlmWide("caller1")
    \/ Acquire("caller1")
    \/ StoreInsert("caller1")
    \/ ReturnCmd("caller1")
    \/ Classify("caller1")
    \/ GetLookup("caller1")
    \/ GetTouch("caller1")
    \/ ReturnGet("caller1")
    \/ LlmRoute("caller1")
    \/ Respond("caller1")
    \/ ReturnLlm("caller1")

SpecRoute == Init /\ [][NextRoute]_vars

(***************************************************************************)
(* SpecFair: the callers invoke any command at any time, the clock stands  *)
(* still, and the scheduling is fair.  The tokio runtime polls a future    *)
(* that can make progress, so a caller that can take its next step takes   *)
(* it (weak fairness); the tokio mutex hands the lock to its waiters in    *)
(* the order they came, so a caller that waits for a lock which is free    *)
(* again and again gets it (strong fairness); and every request sent is    *)
(* answered, or fails, in the end, which is the hypothesis of the          *)
(* termination property about the network.                                 *)
(***************************************************************************)
Run(p) ==
    \/ StoreInsert(p)
    \/ GetLookup(p)
    \/ GetTouch(p)
    \/ HasCheck(p)
    \/ ListKeys(p)
    \/ RemoveDo(p)
    \/ ReturnCmd(p)
    \/ Classify(p)
    \/ ReturnGet(p)
    \/ LlmRoute(p)
    \/ ReturnLlm(p)

NextFair ==
    \/ \E p \in Procs : CallStore(p)
    \/ \E p \in Procs : CallGet(p)
    \/ \E p \in Procs : CallHas(p)
    \/ \E p \in Procs : CallList(p)
    \/ \E p \in Procs : CallRemove(p)
    \/ \E p \in Procs : CallLlm(p)
    \/ \E p \in Procs : Acquire(p)
    \/ \E p \in Procs : Run(p)
    \/ \E p \in Procs : Respond(p)

Fairness == \A p \in Procs : SF_vars(Acquire(p)) /\ WF_vars(Run(p)) /\ WF_vars(Respond(p))

SpecFair == Init /\ [][NextFair]_vars /\ Fairness

TypeOK ==
    /\ DOMAIN secrets \subseteq Names
    /\ \A n \in DOMAIN secrets : secrets[n] \in SecretData
    /\ lock \in Procs \cup {NoOwner}
    /\ now \in Times

(***************************************************************************)
(* Vocabulary of the properties.                                           *)
(***************************************************************************)
Quiescent == \A p \in Procs : pc[p] = "idle"

CriticalPcs == {"store_insert", "store_ret", "get_lookup", "get_touch", "get_ret", "has_check", "has_ret", "list_keys", "list_ret", "remove_do", "remove_ret"}

SetMax(S) == CHOOSE x \in S : \A y \in S : y <= x

\* What the caller issued before the command it is executing now.
PriorOps(p) == SubSeq(hist[p], 1, Len(hist[p]) - 1)

Mutations(h, n) == {i \in 1..Len(h) : h[i].name = n /\ h[i].op \in {"store_secret", "remove_secret"}}

LastStored(h, n) == Mutations(h, n) # {} /\ h[SetMax(Mutations(h, n))].op = "store_secret"

LastStoredValue(h, n) == h[SetMax(Mutations(h, n))].value

\* The sequential meaning of one operation executed alone at time t.
SeqApply(m, o, t) ==
    CASE o.op = "store_secret" -> [k \in (DOMAIN m) \cup {o.name} |-> IF k = o.name THEN [value |-> o.value, created_at |-> t, last_accessed |-> None] ELSE m[k]]
      [] o.op = "get_secret" -> [k \in DOMAIN m |-> IF k = o.name THEN [value |-> m[k].value, created_at |-> m[k].created_at, last_accessed |-> Some(t)] ELSE m[k]]
      [] o.op = "remove_secret" -> [k \in (DOMAIN m) \ {o.name} |-> m[k]]

RECURSIVE SerialFinals(_, _, _)

\* The maps that executing the operations of h one at a time can end in: any
\* interleaving that keeps each caller's order, the clock never running back.
SerialFinals(m, h, t) ==
    IF \A p \in Procs : h[p] = << >> THEN {m}
    ELSE UNION {SerialFinals(SeqApply(m, Head(h[p]), u), [h EXCEPT ![p] = Tail(@)], u) : p \in {q \in Procs : h[q] # << >>}, u \in t..MaxClock}

(***************************************************************************)
(* C1.  When callers issue store, get and remove concurrently on disjoint  *)
(* names, the map they leave behind once all have returned is the map that *)
(* some one-at-a-time execution of the same operations produces.           *)
(***************************************************************************)
C1_Linearizable == Quiescent => secrets \in SerialFinals(EmptyMap, hist, 0)

C1_Witness ==
    /\ Quiescent
    /\ \A p \in Procs : Len(hist[p]) >= 1
    /\ DOMAIN secrets = Names
    /\ \E n \in Names : secrets[n].last_accessed # None

(***************************************************************************)
(* C2.  A get excludes every other operation from the map while it looks   *)
(* the record up, stamps it and copies the value: the record it found      *)
(* stays present until it returns, and what it returns is the value of a   *)
(* whole record now stamped as accessed, or NotFound for an absent name.   *)
(***************************************************************************)
C2_GetSeesWholeRecord ==
    \A p \in Procs :
        /\ pc[p] \in {"get_lookup", "get_touch", "get_ret"} => \A q \in Procs \ {p} : pc[q] \notin CriticalPcs
        /\ pc[p] = "get_touch" => name[p] \in DOMAIN secrets
        /\ pc[p] = "get_ret" =>
              IF IsOk(result[p])
                 THEN /\ name[p] \in DOMAIN secrets
                      /\ secrets[name[p]] \in SecretData
                      /\ secrets[name[p]].value = result[p][2]
                      /\ secrets[name[p]].last_accessed # None
                 ELSE /\ name[p] \notin DOMAIN secrets
                      /\ result[p] = Err(NotFoundMsg(name[p]))

C2_Witness ==
    \E p \in Procs, q \in Procs :
        /\ pc[p] = "get_ret"
        /\ IsOk(result[p])
        /\ pc[q] \in {"store_lock", "remove_lock"}
        /\ name[q] = name[p]

(***************************************************************************)
(* C3.  A get returns the value of the latest store of its name and leaves *)
(* the record stamped as accessed; a get of a name that was never stored,  *)
(* or whose latest store was followed by a remove, fails NotFound.         *)
(***************************************************************************)
C3_GetAfterStore ==
    \A p \in Procs :
        pc[p] = "get_ret" =>
            IF LastStored(PriorOps(p), name[p])
               THEN /\ result[p] = Ok(LastStoredValue(PriorOps(p), name[p]))
                    /\ name[p] \in DOMAIN secrets
                    /\ secrets[name[p]].last_accessed # None
               ELSE result[p] = Err(NotFoundMsg(name[p]))

C3_Witness ==
    \E p \in Procs :
        /\ pc[p] = "get_ret"
        /\ Len(hist[p]) = 2
        /\ hist[p][1].op = "store_secret"
        /\ hist[p][1].name = name[p]
        /\ result[p] = Ok(hist[p][1].value)
        /\ \E q \in Procs \ {p} : pc[q] = "store_lock"

(***************************************************************************)
(* C4.  A remove of a present name deletes that record and no other, so    *)
(* that the caller's next get of the name fails NotFound; a remove of an   *)
(* absent name fails NotFound and leaves the map as it was.                *)
(***************************************************************************)
C4_Remove ==
    [][\A p \in Procs :
        /\ (pc[p] = "remove_do" /\ pc'[p] = "remove_ret") =>
              IF name[p] \in DOMAIN secrets
                 THEN /\ result'[p] = Ok(OkUnit)
                      /\ DOMAIN secrets' = (DOMAIN secrets) \ {name[p]}
                      /\ \A k \in DOMAIN secrets' : secrets'[k] = secrets[k]
                 ELSE /\ result'[p] = Err(NotFoundMsg(name[p]))
                      /\ secrets' = secrets
        /\ (pc[p] # "get_ret" /\ pc'[p] = "get_ret" /\ Mutations(PriorOps(p), name[p]) # {} /\ ~LastStored(PriorOps(p), name[p])) =>
              /\ result'[p] = Err(NotFoundMsg(name[p]))
              /\ name[p] \notin DOMAIN secrets'
      ]_vars

C4_Witness ==
    \E p \in Procs :
        /\ pc[p] = "get_ret"
        /\ Len(hist[p]) = 3
        /\ hist[p][1].op = "store_secret"
        /\ hist[p][2].op = "remove_secret"
        /\ hist[p][1].name = name[p]
        /\ hist[p][2].name = name[p]
        /\ result[p] = Err(NotFoundMsg(name[p]))

(***************************************************************************)
(* C5.  A store succeeds and leaves, for its name, the record made of the  *)
(* new value, the time of the store and no access time, whatever record    *)
(* the name had before; the records of the other names stay as they were.  *)
(***************************************************************************)
C5_Store ==
    [][\A p \in Procs :
        (pc[p] = "store_insert" /\ pc'[p] = "store_ret") =>
            /\ result'[p] = Ok(OkUnit)
            /\ DOMAIN secrets' = (DOMAIN secrets) \cup {name[p]}
            /\ secrets'[name[p]] = [value |-> value[p], created_at |-> now, last_accessed |-> None]
            /\ \A k \in (DOMAIN secrets') \ {name[p]} : k \in DOMAIN secrets /\ secrets'[k] = secrets[k]
      ]_vars

\* A store has just replaced a record whose other value a dispatch read (and
\* so stamped) before.
C5_Witness ==
    \E p \in Procs, q \in Procs :
        /\ pc[p] = "store_ret"
        /\ pc[q] = "llm_await"
        /\ name[q] = name[p]
        /\ net[q].key # value[p]
        /\ secrets[name[p]].value = value[p]
        /\ secrets[name[p]].last_accessed = None
        /\ DOMAIN secrets = Names

(***************************************************************************)
(* C6.  The access time of a record becomes a time only in the step of a   *)
(* get (a command's, or a dispatch's key lookup) that finds the record,    *)
(* and a store leaves the record it writes without access time: no store,  *)
(* has, list, remove or failed get stamps a record.                        *)
(***************************************************************************)
GetHit(p, n) ==
    /\ pc[p] = "get_touch"
    /\ pc'[p] = "get_ret"
    /\ name[p] = n
    /\ n \in DOMAIN secrets
    /\ IsOk(result'[p])

Stamped(n) ==
    /\ n \in DOMAIN secrets'
    /\ secrets'[n].last_accessed # None
    /\ n \in DOMAIN secrets => secrets'[n] # secrets[n]

C6_AccessedOnlyByGet ==
    [][/\ \A n \in Names : Stamped(n) => \E p \in Procs : GetHit(p, n)
       /\ \A p \in Procs : (pc[p] = "store_insert" /\ pc'[p] = "store_ret") => secrets'[name[p]].last_accessed = None
      ]_vars

C6_Witness ==
    \E p \in Procs, q \in Procs :
        /\ pc[p] = "llm_await"
        /\ name[p] \in DOMAIN secrets
        /\ secrets[name[p]].last_accessed # None
        /\ pc[q] = "has_ret"
        /\ name[q] # name[p]
        /\ name[q] \in DOMAIN secrets
        /\ secrets[name[q]].last_accessed = None

(***************************************************************************)
(* C7.  has and list only observe: no step of either changes the map, has  *)
(* answers whether its name has a record and list answers the set of names *)
(* that have one.                                                          *)
(***************************************************************************)
C7_HasListPure ==
    [][\A p \in Procs :
        /\ (pc[p] = "has_check" /\ pc'[p] = "has_ret") => result'[p] = Ok(name[p] \in DOMAIN secrets)
        /\ (pc[p] = "list_keys" /\ pc'[p] = "list_ret") => result'[p] = Ok(DOMAIN secrets)
        /\ (op[p] \in {"has_secret", "list_secrets"} /\ pc'[p] # pc[p]) => secrets' = secrets
      ]_vars

C7_Witness ==
    \E p \in Procs, q \in Procs :
        /\ pc[p] = "has_ret"
        /\ result[p] = Ok(TRUE)
        /\ secrets[name[p]].last_accessed = None
        /\ pc[q] = "list_lock"

(***************************************************************************)
(* Vocabulary of the classification properties: the occurrence of a word   *)
(* in an identifier, position by position.                                 *)
(***************************************************************************)
HasWord(s, w) == \E i \in 1..(Len(s) - Len(w) + 1) : \A j \in 1..Len(w) : s[i + j - 1] = w[j]

NamesAnthropic(m) == HasWord(m, claude) \/ HasWord(m, anthropic)

NamesOpenAI(m) == HasWord(m, gpt) \/ HasWord(m, openai)

Classified(p) == pc[p] = "llm_classify" /\ pc'[p] # "llm_classify"

Rejected(p) == pc'[p] = "llm_ret" /\ result'[p] = Err(UnsupportedMsg)

Selected(p, n) == pc'[p] = "get_lock" /\ name'[p] = n

(***************************************************************************)
(* C8, as claimed.  The classification ignores the letter case: every      *)
(* identifier is classified as its lower-cased form is, so one that has    *)
(* "claude", "anthropic", "gpt" or "openai" in any letter case is not      *)
(* rejected.                                                               *)
(***************************************************************************)
C8_CaseInsensitive ==
    [][\A p \in Procs :
        Classified(p) =>
            IF NamesAnthropic(ToLower(model[p])) THEN Selected(p, "anthropic_api_key")
            ELSE IF NamesOpenAI(ToLower(model[p])) THEN Selected(p, "openai_api_key")
            ELSE Rejected(p)
      ]_vars

(***************************************************************************)
(* C8, amended.  The classification is a case-sensitive substring match:   *)
(* an identifier is classified exactly when it has "claude", "anthropic",  *)
(* "gpt" or "openai" in lower case, and one that has these words only in   *)
(* another letter case is rejected as an unsupported model.                *)
(***************************************************************************)
C8_CaseSensitive ==
    [][\A p \in Procs :
        Classified(p) =>
            /\ Rejected(p) <=> ~(NamesAnthropic(model[p]) \/ NamesOpenAI(model[p]))
            /\ pc'[p] = "get_lock" <=> (NamesAnthropic(model[p]) \/ NamesOpenAI(model[p]))
      ]_vars

C8_Witness ==
    \E p \in Procs :
        /\ pc[p] = "llm_ret"
        /\ result[p] = Err(UnsupportedMsg)
        /\ model[p] = Claude \o dash4
        /\ NamesAnthropic(ToLower(model[p]))

(***************************************************************************)
(* C9.  An identifier that has "claude" or "anthropic" selects Anthropic   *)
(* and the secret "anthropic_api_key", also when it has "gpt" or "openai"  *)
(* as well; any other identifier that has "gpt" or "openai" selects OpenAI *)
(* and "openai_api_key"; every other identifier is rejected as an          *)
(* unsupported model.                                                      *)
(***************************************************************************)
C9_TieBreak ==
    [][\A p \in Procs :
        Classified(p) =>
            IF NamesAnthropic(model[p]) THEN Selected(p, "anthropic_api_key") /\ Route(model[p]) = Ok(AnthropicUrl)
            ELSE IF NamesOpenAI(model[p]) THEN Selected(p, "openai_api_key") /\ Route(model[p]) = Ok(OpenAIUrl)
            ELSE Rejected(p)
      ]_vars

C9_Witness ==
    \E p \in Procs :
        /\ pc[p] = "get_lock"
        /\ op[p] = "call_llm"
        /\ model[p] = gpt \o claude
        /\ name[p] = "anthropic_api_key"

(***************************************************************************)
(* C10.  The classification comes first: a dispatch takes no lock and has  *)
(* no request in flight while it classifies, a dispatch of an unsupported  *)
(* model goes from the classification straight to its error, in a step     *)
(* that changes neither the map nor the lock nor the network, and no       *)
(* dispatch reaches that error another way.                                *)
(***************************************************************************)
C10_ClassifyFirst ==
    [][\A p \in Procs :
        /\ pc[p] = "llm_classify" => (lock # p /\ net[p] = NoRequest)
        /\ (Classified(p) /\ ~(NamesAnthropic(model[p]) \/ NamesOpenAI(model[p]))) =>
              /\ Rejected(p)
              /\ secrets' = secrets
              /\ lock' = lock
              /\ net' = net
        /\ (pc[p] # "llm_ret" /\ Rejected(p)) => pc[p] = "llm_classify"
      ]_vars

C10_Witness ==
    \E p \in Procs, q \in Procs :
        /\ pc[p] = "llm_ret"
        /\ result[p] = Err(UnsupportedMsg)
        /\ lock = q
        /\ q # p
        /\ DOMAIN secrets = Names
        /\ \A n \in Names : secrets[n].last_accessed = None

(***************************************************************************)
(* Vocabulary of the dispatch properties: the secret a model identifier    *)
(* selects, the steps a dispatch takes, and the calls it has made so far.  *)
(***************************************************************************)
SecretOf(m) == IF NamesAnthropic(m) THEN "anthropic_api_key" ELSE "openai_api_key"

DispatchStep(p) == op[p] = "call_llm" /\ pc'[p] # pc[p]

Gets(c) == {i \in 1..Len(c) : c[i][1] = "get_secret"}

Posts(c) == {i \in 1..Len(c) : c[i][1] = "post"}

(***************************************************************************)
(* C11.  A dispatch of a classifiable model whose lookup finds the secret  *)
(* of the provider absent fails with the store's NotFound error naming     *)
(* that secret: the lookup and the return of the error leave the map as it *)
(* was, and the dispatch ends having made its one lookup and no request.   *)
(***************************************************************************)
C11_NoKeyNoCall ==
    [][\A p \in Procs :
        /\ (DispatchStep(p) /\ pc[p] = "get_lookup" /\ SecretOf(model[p]) \notin DOMAIN secrets) =>
              /\ pc'[p] = "get_ret"
              /\ result'[p] = Err(NotFoundMsg(SecretOf(model[p])))
              /\ secrets' = secrets
        /\ (DispatchStep(p) /\ pc[p] = "get_ret" /\ IsErr(result[p])) =>
              /\ pc'[p] = "llm_ret"
              /\ result'[p] = Err(NotFoundMsg(SecretOf(model[p])))
              /\ secrets' = secrets
              /\ net'[p] = NoRequest
              /\ calls'[p] = <<<<"get_secret", SecretOf(model[p])>>>>
        /\ (pc[p] = "llm_ret" /\ result[p] = Err(NotFoundMsg(SecretOf(model[p])))) =>
              /\ Posts(calls[p]) = {}
              /\ net[p] = NoRequest
              /\ response[p] = None
      ]_vars

\* The OpenAI key was absent when the dispatch looked it up, while the other
\* caller was about to store it.
C11_Witness ==
    \E p \in Procs, q \in Procs :
        /\ pc[p] = "llm_ret"
        /\ model[p] = gpt \o dash4
        /\ result[p] = Err(NotFoundMsg("openai_api_key"))
        /\ calls[p] = <<<<"get_secret", "openai_api_key">>>>
        /\ "anthropic_api_key" \in DOMAIN secrets
        /\ pc[q] = "store_lock"
        /\ name[q] = "openai_api_key"

(***************************************************************************)
(* C12.  The lock is held only inside the bodies of the store's methods: a *)
(* dispatch holds it during its key lookup alone, never while it           *)
(* classifies, routes, has a request in flight or returns; so whenever the *)
(* other callers are all suspended in upstream calls, the lock is free for *)
(* a caller that waits for it.                                             *)
(***************************************************************************)
C12_NoLockAcrossNetwork ==
    \A p \in Procs :
        /\ lock = p => pc[p] \in CriticalPcs
        /\ net[p] # NoRequest => (lock # p /\ pc[p] = "llm_await")
        /\ pc[p] \in {"llm_classify", "llm_route", "llm_await", "llm_ret"} => lock # p
        /\ (pc[p] \in LockPcs /\ \A q \in Procs \ {p} : pc[q] = "llm_await") => (lock = NoOwner /\ ENABLED Acquire(p))

\* While one dispatch is suspended in its upstream call, the other caller has
\* taken the lock and overwritten the very key the dispatch read.
C12_Witness ==
    \E p \in Procs, q \in Procs :
        /\ pc[p] = "llm_await"
        /\ net[p] # NoRequest
        /\ lock = q
        /\ pc[q] = "store_ret"
        /\ name[q] = name[p]

(***************************************************************************)
(* C13.  A dispatch of a classifiable model looks its key up exactly once  *)
(* and, when the lookup succeeds, sends exactly one request, to the one    *)
(* provider of the model; a dispatch that has its result (the response, or *)
(* the error of the lookup, the transport, the status or the body) has     *)
(* made no further call, and the one step left to it is to return that     *)
(* result.  Nothing of an earlier dispatch is used: every dispatch makes   *)
(* these calls itself.                                                     *)
(***************************************************************************)
UrlOf(m) == IF NamesAnthropic(m) THEN AnthropicUrl ELSE OpenAIUrl

Classifiable(m) == NamesAnthropic(m) \/ NamesOpenAI(m)

C13_OneGetOneCall ==
    /\ [](\A p \in Procs :
            op[p] = "call_llm" =>
                /\ Cardinality(Gets(calls[p])) <= 1
                /\ Cardinality(Posts(calls[p])) <= 1
                /\ (pc[p] = "llm_ret" /\ ~Classifiable(model[p])) => calls[p] = << >>
                /\ (pc[p] = "llm_ret" /\ Classifiable(model[p])) =>
                      /\ result[p] # Pending
                      /\ IF result[p] = Err(NotFoundMsg(SecretOf(model[p])))
                            THEN calls[p] = <<<<"get_secret", SecretOf(model[p])>>>>
                            ELSE calls[p] = <<<<"get_secret", SecretOf(model[p])>>, <<"post", UrlOf(model[p])>>>>)
    /\ [][\A p \in Procs :
            /\ (DispatchStep(p) /\ pc[p] = "llm_ret") => pc'[p] = "idle"
            /\ (DispatchStep(p) /\ pc[p] = "llm_await") => (pc'[p] = "llm_ret" /\ net'[p] = NoRequest /\ calls'[p] = calls[p])
            /\ (DispatchStep(p) /\ pc[p] = "idle") => calls[p] = << >>
         ]_vars

\* A dispatch whose one request failed in the transport has its error, with
\* one lookup and one request on record.
C13_Witness ==
    \E p \in Procs :
        /\ pc[p] = "llm_ret"
        /\ model[p] = claude \o dash4
        /\ result[p] = Err("Failed to send request")
        /\ calls[p] = <<<<"get_secret", "anthropic_api_key">>, <<"post", AnthropicUrl>>>>
        /\ "openai_api_key" \in DOMAIN secrets

(***************************************************************************)
(* Vocabulary of the adapter properties: a dispatch that has the result of *)
(* its exchange, the response it got, and what the response was.           *)
(***************************************************************************)
AtResult(p) == pc[p] = "llm_ret" /\ response[p] # None

Resp(p) == response[p][1]

Is2xx(r) == r.transport_ok /\ r.status \in 200..299

Non2xx(r) == r.transport_ok /\ r.status \notin 200..299

(***************************************************************************)
(* C14, as claimed.  A response with a status outside 200..299 makes the   *)
(* dispatch fail, never succeed, and the error carries the status: two     *)
(* dispatches that were answered with different statuses end with          *)
(* different errors.                                                       *)
(***************************************************************************)
C14_UpstreamErrorCarriesStatus ==
    \A p \in Procs, q \in Procs :
        (AtResult(p) /\ AtResult(q) /\ Non2xx(Resp(p)) /\ Non2xx(Resp(q))) =>
            /\ IsErr(result[p])
            /\ Resp(p).status # Resp(q).status => result[p] # result[q]

(***************************************************************************)
(* C15, as claimed.  A successful result has no usage exactly when the     *)
(* body has no usage object; otherwise its usage is the triple of the      *)
(* numbers the body gives under input_tokens, output_tokens, total_tokens  *)
(* (Anthropic) or prompt_tokens, completion_tokens, total_tokens (OpenAI), *)
(* with 0 for a field the object lacks; so the result is the same for both *)
(* providers when the text and these numbers are.                          *)
(***************************************************************************)
InputField(m) == IF NamesAnthropic(m) THEN "input_tokens" ELSE "prompt_tokens"

OutputField(m) == IF NamesAnthropic(m) THEN "output_tokens" ELSE "completion_tokens"

ReadOrZero(u, f) == IF f \in DOMAIN u THEN u[f] ELSE 0

C15_UsageNormalized ==
    \A p \in Procs :
        (AtResult(p) /\ IsOk(result[p])) =>
            /\ result[p][2].usage = None <=> Resp(p).json.usage = None
            /\ Resp(p).json.usage # None =>
                  result[p][2].usage = Some([input_tokens |-> ReadOrZero(Resp(p).json.usage[1], InputField(model[p])),
                                             output_tokens |-> ReadOrZero(Resp(p).json.usage[1], OutputField(model[p])),
                                             total_tokens |-> ReadOrZero(Resp(p).json.usage[1], "total_tokens")])

(***************************************************************************)
(* C16.  A response with a 2xx status whose body lacks the text path of    *)
(* the provider (content[0].text for Anthropic, choices[0].message.content *)
(* for OpenAI), or is no JSON at all, makes the dispatch fail with the     *)
(* malformed-response error, whether or not the body has a usage object;   *)
(* a successful result always has the text the body gives under that path. *)
(***************************************************************************)
TextPath(m, j) == IF NamesAnthropic(m) THEN j.content ELSE j.choices

C16_MalformedResponse ==
    \A p \in Procs :
        /\ (AtResult(p) /\ Is2xx(Resp(p)) /\ Resp(p).is_json /\ TextPath(model[p], Resp(p).json) = None) =>
              result[p] = Err("No content in response")
        /\ (AtResult(p) /\ Is2xx(Resp(p)) /\ ~Resp(p).is_json) =>
              result[p] = Err("Failed to parse response")
        /\ (AtResult(p) /\ IsOk(result[p])) =>
              /\ Is2xx(Resp(p))
              /\ Resp(p).is_json
              /\ TextPath(model[p], Resp(p).json) = Some(result[p][2].content)

\* An OpenAI dispatch was answered 2xx with a body that has a usage object and
\* the text path of the other provider, but not its own.
C16_Witness ==
    \E p \in Procs :
        /\ AtResult(p)
        /\ model[p] = gpt \o dash4
        /\ Resp(p).status = 200
        /\ Resp(p).is_json
        /\ Resp(p).json.choices = None
        /\ Resp(p).json.content = Some("hi")
        /\ Resp(p).json.usage # None
        /\ result[p] = Err("No content in response")

(***************************************************************************)
(* C17.  A request in flight goes to the provider whose secret the         *)
(* dispatch looked up, with the value it read from that secret: the        *)
(* Anthropic URL with the value of "anthropic_api_key", the OpenAI URL     *)
(* with the value of "openai_api_key".  The second classification agrees   *)
(* with the first, so a dispatch that has its key always sends a request:  *)
(* it never ends as an unsupported model there.                            *)
(***************************************************************************)
C17_AdapterMatchesSecret ==
    /\ [](\A p \in Procs :
            net[p] # NoRequest =>
                /\ \/ net[p].url = AnthropicUrl /\ name[p] = "anthropic_api_key"
                   \/ net[p].url = OpenAIUrl /\ name[p] = "openai_api_key"
                /\ calls[p] = <<<<"get_secret", name[p]>>, <<"post", net[p].url>>>>
                /\ name[p] \in DOMAIN secrets
                /\ net[p].key = secrets[name[p]].value
                /\ secrets[name[p]].last_accessed # None)
    /\ [][\A p \in Procs :
            (DispatchStep(p) /\ pc[p] = "llm_route") =>
                /\ pc'[p] = "llm_await"
                /\ net'[p] # NoRequest
                /\ result'[p] # Err(UnsupportedMsg)
         ]_vars

\* An identifier with "gpt" before "claude" is in flight to Anthropic with the
\* Anthropic key, while the store has another value for the OpenAI key.
C17_Witness ==
    \E p \in Procs :
        /\ pc[p] = "llm_await"
        /\ model[p] = gpt \o claude
        /\ net[p].url = AnthropicUrl
        /\ net[p].key = secrets["anthropic_api_key"].value
        /\ "openai_api_key" \in DOMAIN secrets
        /\ secrets["openai_api_key"].value # net[p].key

(***************************************************************************)
(* C18.  Of all the steps of a dispatch only the successful key lookup     *)
(* changes the map, and what it changes is the access time of the record   *)
(* of the provider's secret, which becomes the current time: the names,    *)
(* the value and creation time of that record and the records of the       *)
(* other names stay as they were.  No later step of the dispatch, the      *)
(* failure of its request included, changes the map again.                 *)
(***************************************************************************)
C18_DispatchOnlyStamps ==
    [][\A p \in Procs :
        /\ (DispatchStep(p) /\ pc[p] # "get_touch") => secrets' = secrets
        /\ (DispatchStep(p) /\ pc[p] = "get_touch") =>
              /\ name[p] = SecretOf(model[p])
              /\ name[p] \in DOMAIN secrets
              /\ DOMAIN secrets' = DOMAIN secrets
              /\ \A k \in (DOMAIN secrets) \ {name[p]} : secrets'[k] = secrets[k]
              /\ secrets'[name[p]].value = secrets[name[p]].value
              /\ secrets'[name[p]].created_at = secrets[name[p]].created_at
              /\ secrets'[name[p]].last_accessed = Some(now)
              /\ result'[p] = Ok(secrets[name[p]].value)
      ]_vars

\* A dispatch whose request failed in the transport has left its stamp, later
\* than the creation of the record, and the other record has none.
C18_Witness ==
    \E p \in Procs :
        /\ pc[p] = "llm_ret"
        /\ model[p] = claude \o dash4
        /\ result[p] = Err("Failed to send request")
        /\ \A q \in Procs \ {p} : pc[q] = "idle"
        /\ DOMAIN secrets = Names
        /\ secrets["anthropic_api_key"].created_at = 0
        /\ secrets["anthropic_api_key"].last_accessed = Some(1)
        /\ secrets["openai_api_key"].last_accessed = None

(***************************************************************************)
(* C19.  The key of a dispatch is a copy taken at its lookup: the lookup   *)
(* returns the value the record has at that moment (or fails NotFound when *)
(* the name has no record then), the dispatch sends exactly that value,    *)
(* and no step of another caller, a store or remove of the same name       *)
(* included, changes the key the dispatch holds or has sent, its request   *)
(* or its result.                                                          *)
(***************************************************************************)
HasKey(p) == op[p] = "call_llm" /\ pc[p] \in {"llm_route", "llm_await"}

C19_KeyIsCopy ==
    /\ [](\A p \in Procs :
            /\ (op[p] = "call_llm" /\ pc[p] = "llm_route") => api_key[p] \in Values
            /\ net[p] # NoRequest => net[p].key = api_key[p])
    /\ [][\A p \in Procs :
            /\ (DispatchStep(p) /\ pc[p] = "get_lookup" /\ name[p] \notin DOMAIN secrets) => result'[p] = Err(NotFoundMsg(name[p]))
            /\ (DispatchStep(p) /\ pc[p] = "get_touch") => result'[p] = Ok(secrets[name[p]].value)
            /\ (DispatchStep(p) /\ pc[p] = "get_ret" /\ IsOk(result[p])) => (pc'[p] = "llm_route" /\ api_key'[p] = result[p][2])
            /\ (DispatchStep(p) /\ pc[p] = "llm_route") => net'[p].key = api_key[p]
            /\ (HasKey(p) /\ pc'[p] = pc[p]) => (api_key'[p] = api_key[p] /\ net'[p] = net[p] /\ result'[p] = result[p])
         ]_vars

\* A dispatch has its request in flight with the key it read, the key has been
\* removed since, and the other dispatch, which looked it up after the remove,
\* has failed.
C19_Witness ==
    \E p \in Procs, q \in Procs :
        /\ pc[p] = "llm_await"
        /\ net[p].key \in Values
        /\ name[p] \notin DOMAIN secrets
        /\ pc[q] = "llm_ret"
        /\ result[q] = Err(NotFoundMsg(name[p]))

(***************************************************************************)
(* C20.  Under fair scheduling every command returns: a caller never waits *)
(* for the lock while it holds it, every store, get, has, list and remove  *)
(* that was invoked comes to its result and returns, and every dispatch    *)
(* comes to exactly one outcome, a response or an error, and returns it.   *)
(***************************************************************************)
StoreOps == {"store_secret", "get_secret", "has_secret", "list_secrets", "remove_secret"}

C20_EveryCallReturns ==
    /\ [](\A p \in Procs : pc[p] \in LockPcs => lock # p)
    /\ [][\A p \in Procs :
            (pc[p] # "idle" /\ pc'[p] = "idle") =>
                /\ IsOk(result[p]) \/ IsErr(result[p])
                /\ IF op[p] \in StoreOps THEN pc[p] \in RetPcs ELSE pc[p] = "llm_ret"
         ]_vars
    /\ \A p \in Procs : (pc[p] # "idle") ~> (pc[p] = "idle")

\* A dispatch is suspended in its upstream call while the other caller waits
\* for the lock, which a third party does not hold.
C20_Witness ==
    \E p \in Procs, q \in Procs :
        /\ pc[p] = "llm_await"
        /\ pc[q] \in LockPcs
        /\ op[q] \in StoreOps
        /\ lock = NoOwner

====
